---- MODULE Spec2Model ----
(***************************************************************************)
(* A model of the AdamT optimizer (src/AdamT.py): construction with its    *)
(* hyperparameter validation, the update call step() with its two passes   *)
(* over every parameter group, and snapshot / restore of the optimizer     *)
(* state through __setstate__.                                             *)
(*                                                                         *)
(* Numbers.  Python floats and one-element tensors are modelled on the     *)
(* decimal grid of 10^-8: the integer n stands for n / 10^8, and every     *)
(* arithmetic operation rounds its exact result to the nearest grid point, *)
(* as IEEE arithmetic rounds to the nearest float.  The grid keeps the     *)
(* exact zeros of the code exact (cos(pi) = -1, beta1 + (1 - beta1) = 1),  *)
(* which is what decides whether the scalar division of line 131 raises.   *)
(***************************************************************************)
EXTENDS Integers, Sequences, FiniteSets, TLC

\* ------------------------------------------------------------------ bounds
MaxCalls == 2

\* ------------------------------------------------------------- arithmetic
Half == 10 ^ 4
One == Half * Half
PI == 314159265

\* floor((a * b + c) / One), computed in two limbs to stay inside 32 bits
MulC(a, b, c) ==
    LET a1 == a \div Half
        a0 == a % Half
        b1 == b \div Half
        b0 == b % Half
    IN a1 * b1 + ((a1 * b0 + a0 * b1 + ((a0 * b0 + c) \div Half)) \div Half)

\* a * b, rounded to the nearest grid point
MulR(a, b) == MulC(a, b, One \div 2)

\* a / d for an integer d > 0, rounded to the nearest grid point
DivI(a, d) == (a + d \div 2) \div d

RECURSIVE Digits(_, _, _, _)
Digits(r, b, n, q) ==
    IF n = 0 THEN (IF 2 * r >= b THEN q + 1 ELSE q)
    ELSE Digits((r * 10) % b, b, n - 1, q * 10 + ((r * 10) \div b))

\* a / b for b # 0 by long division, rounded to the nearest grid point
DivR(a, b) ==
    IF b > 0 THEN (a \div b) * One + Digits(a % b, b, 8, 0)
    ELSE ((-a) \div (-b)) * One + Digits((-a) % (-b), -b, 8, 0)

RECURSIVE Bisect(_, _, _)
Bisect(x, lo, hi) ==
    IF lo >= hi THEN lo
    ELSE LET mid == (lo + hi + 1) \div 2
         IN IF MulC(mid, mid, One - 1) <= x THEN Bisect(x, mid, hi)
            ELSE Bisect(x, lo, mid - 1)

\* sqrt(x) for x >= 0: the largest grid point whose square is at most x
Sqrt(x) == Bisect(x, 0, IF x > One THEN x ELSE One)

\* a ** n for an integer n >= 0
RECURSIVE Pow(_, _)
Pow(a, n) == IF n = 0 THEN One ELSE MulR(a, Pow(a, n - 1))

RECURSIVE Series(_, _, _, _)
Series(x2, n, term, sum) ==
    IF n > 8 THEN sum
    ELSE LET t == -DivI(MulR(term, x2), (2 * n - 1) * (2 * n))
         IN Series(x2, n + 1, t, sum + t)

\* cos(x) for 0 <= x <= pi / 2
Cos(x) == Series(MulR(x, x), 1, One, One)

\* math.cos(math.pi * step / T_max), reduced to the first quadrant
CosPi(step, T_max) ==
    LET k == step % (2 * T_max)
        j == IF k > T_max THEN 2 * T_max - k ELSE k
    IN IF 2 * j = T_max THEN 0
       ELSE IF 2 * j > T_max THEN -Cos(DivI(PI * (T_max - j), T_max))
       ELSE Cos(DivI(PI * j, T_max))

\* ------------------------------------------------------------- the inputs
\* The parameters handed to the constructor, already partitioned in groups.
ParamIds == 1 .. 3
GroupParams == <<(<<1, 2>>), (<<3>>)>>

\* lr=0.1, betas=(0.9, 0.999), eps=1e-8, weight_decay=0, T_max=10,
\* eta_min=0.1, temperature_init=1.0
Scenario ==
    [lr |-> One \div 10, betas |-> <<9 * (One \div 10), 999 * (One \div 1000)>>,
     eps |-> 1, weight_decay |-> 0, T_max |-> 10, eta_min |-> One \div 10,
     temperature_init |-> One]

\* the same, annealing down to temperature 0 in two steps, with weight decay
Annealed ==
    [Scenario EXCEPT !.weight_decay = One \div 10, !.T_max = 2, !.eta_min = 0]

\* one keyword argument list per check of the constructor that can fail
Rejected ==
    {[Scenario EXCEPT !.lr = -One],
     [Scenario EXCEPT !.eps = -1],
     [Scenario EXCEPT !.betas = <<One, 999 * (One \div 1000)>>],
     [Scenario EXCEPT !.betas = <<9 * (One \div 10), One>>],
     [Scenario EXCEPT !.weight_decay = -One],
     [Scenario EXCEPT !.temperature_init = -One],
     [Scenario EXCEPT !.eta_min = 2 * One],
     [Scenario EXCEPT !.T_max = 0],
     [Scenario EXCEPT !.lr = -One, !.T_max = 0]}

\* params as a list of dicts: the parameters of a group and the keys it sets
\* itself, as a set of <<key, value>> pairs
PlainGroups == [gi \in 1 .. Len(GroupParams) |-> [params |-> GroupParams[gi], keys |-> {}]]
OverridingGroups ==
    [PlainGroups EXCEPT ![1].keys = {<<"weight_decay", One \div 10>>},
                        ![2].keys = {<<"lr", -(One \div 2)>>}]

CtorArgs ==
    {[params |-> PlainGroups, kw |-> Scenario],
     [params |-> PlainGroups, kw |-> Annealed],
     [params |-> OverridingGroups, kw |-> Scenario]}
    \cup {[params |-> PlainGroups, kw |-> kw] : kw \in Rejected}

\* p.grad of one parameter: None, a sparse tensor or a dense tensor
NoGrad == [kind |-> "none", v |-> 0]
SparseGrad == [kind |-> "sparse", v |-> One]
DenseGrad(v) == [kind |-> "dense", v |-> v]
GradVals == {One}
GradBufs == {NoGrad, SparseGrad} \cup {DenseGrad(v) : v \in GradVals}

\* The closure argument of step(): <<>> for None, <<g>> for a closure that
\* runs the backward pass and leaves the gradients g in the buffers.
Closures == {<<>>} \cup {<<g>> : g \in [ParamIds -> GradBufs]}

InitialValue == One

\* pc            "new" before the constructor has run, then "ready" (an
\*               optimizer exists) or "failed" (the constructor raised)
\* ctor          the arguments of the constructor call
\* raised        the field the constructor's ValueError names, or "none"
\* param_groups  self.param_groups: per group its hyperparameters and 'step'
\* state         self.state: parameter -> [step, exp_avg, exp_avg_sq]
\* data, grad    the value and the gradient buffer of every parameter
\* calls         the number of step() calls made
\* last          history: the last step() call, with what it found, the
\*               exception it raised and the parameter it raised at
\* restored      <<>>, or the optimizer restored from a snapshot of this one
\*               with the outcome of its own last call
VARIABLES pc, ctor, raised, param_groups, state, data, grad, calls, last, restored

vars == <<pc, ctor, raised, param_groups, state, data, grad, calls, last, restored>>

\* ------------------------------------------------------------ construction
Has(keys, k) == \E kv \in keys : kv[1] = k
Get(keys, k, default) ==
    IF Has(keys, k) THEN (CHOOSE kv \in keys : kv[1] = k)[2] ELSE default

\* The checks of __init__, in their order: the field the ValueError names,
\* or "none" when every check passes.
validate(kw) ==
    IF ~(0 <= kw.lr) THEN "lr"
    ELSE IF ~(0 <= kw.eps) THEN "eps"
    ELSE IF ~(0 <= kw.betas[1] /\ kw.betas[1] < One) THEN "betas[0]"
    ELSE IF ~(0 <= kw.betas[2] /\ kw.betas[2] < One) THEN "betas[1]"
    ELSE IF ~(0 <= kw.weight_decay) THEN "weight_decay"
    ELSE IF ~(0 <= kw.temperature_init) THEN "temperature_init"
    ELSE IF ~(0 <= kw.eta_min /\ kw.eta_min <= kw.temperature_init) THEN "eta_min"
    ELSE IF ~(1 <= kw.T_max) THEN "T_max"
    ELSE "none"

\* super().__init__(params, defaults) (line 45): the base class gives every
\* group the keys it sets itself and takes every other key from defaults;
\* nothing is checked there.
add_param_group(g, defaults) ==
    [params |-> g.params,
     lr |-> Get(g.keys, "lr", defaults.lr),
     betas |-> Get(g.keys, "betas", defaults.betas),
     eps |-> Get(g.keys, "eps", defaults.eps),
     weight_decay |-> Get(g.keys, "weight_decay", defaults.weight_decay),
     T_max |-> Get(g.keys, "T_max", defaults.T_max),
     eta_min |-> Get(g.keys, "eta_min", defaults.eta_min),
     temperature_init |-> Get(g.keys, "temperature_init", defaults.temperature_init),
     step |-> Get(g.keys, "step", -1),
     amsgrad |-> "unset"]

\* mutant: the counter starts at 1
setdefault_step_from_one(group) ==
    IF group.step = -1 THEN [group EXCEPT !.step = 1] ELSE group

\* group.setdefault('step', 0)
setdefault_step(group) == IF group.step = -1 THEN [group EXCEPT !.step = 0] ELSE group

\* The groups of a newly constructed optimizer.
new_groups(args) ==
    [gi \in 1 .. Len(args.params) |->
        setdefault_step(add_param_group(args.params[gi], args.kw))]

NoState == <<>>
NoCall == [op |-> "none", err |-> "none", at |-> 0, reached |-> 0, errors |-> 0,
           pre_groups |-> <<>>, pre_state |-> NoState,
           pre_data |-> [p \in ParamIds |-> InitialValue],
           pre_grad |-> [p \in ParamIds |-> NoGrad],
           in_grad |-> [p \in ParamIds |-> NoGrad]]

Init ==
    /\ pc = "new"
    /\ ctor \in CtorArgs
    /\ raised = "none"
    /\ param_groups = <<>>
    /\ state = NoState
    /\ data = [p \in ParamIds |-> InitialValue]
    /\ grad = [p \in ParamIds |-> NoGrad]
    /\ calls = 0
    /\ last = NoCall
    /\ restored = <<>>

\* AdamT(params, **kw)
Construct ==
    /\ pc = "new"
    /\ LET bad == validate(ctor.kw)
       IN IF bad # "none"
          THEN /\ pc' = "failed"
               /\ raised' = bad
               /\ UNCHANGED param_groups
          ELSE /\ pc' = "ready"
               /\ raised' = "none"
               /\ param_groups' = new_groups(ctor)
    /\ UNCHANGED <<ctor, state, data, grad, calls, last, restored>>

\* ------------------------------------------------------------ step()
\* An optimizer together with the tensors it works on: its groups, its
\* per-parameter state (a dict: a parameter without state is not in
\* DOMAIN state), p.data and p.grad of every parameter.
Optimizer(groups, st, d, g) == [param_groups |-> groups, state |-> st, data |-> d, grad |-> g]

\* The outcome of a (partial) run: the optimizer as it is left, the exception
\* raised ("none" when there is none) and the parameter it was raised at.
Outcome(o, err, at) == [o |-> o, err |-> err, at |-> at]

\* temperature = eta_min + (temperature_init - eta_min) * (1 + cos(...)) / 2
temperature_of(group, step) ==
    group.eta_min
        + DivI(MulR(group.temperature_init - group.eta_min,
                    One + CosPi(step, group.T_max)), 2)

\* mutant: the learning rate is not scaled by the temperature
lr_t_untempered(group, temperature) == group.lr

\* lr_t = lr * temperature
lr_t_of(group, temperature) == MulR(group.lr, temperature)

\* beta1_t = beta1 + (1 - beta1) * (1 - temperature)
beta1_t_of(group, temperature) ==
    group.betas[1] + MulR(One - group.betas[1], One - temperature)

\* state[p] as the first loop leaves it for a parameter with a dense
\* gradient: created with zero moments when empty, then step recorded
track(st, p, step) ==
    LET st1 == IF p \in DOMAIN st THEN st
               ELSE st @@ (p :> [step |-> 0, exp_avg |-> 0, exp_avg_sq |-> 0])
    IN [st1 EXCEPT ![p].step = step]

\* mutant: the state is created and stamped before the sparse check
collect_param_late_check(c, g, p, step) ==
    IF g[p].kind = "none" THEN c
    ELSE IF g[p].kind = "sparse"
         THEN [c EXCEPT !.state = track(c.state, p, step), !.err = "RuntimeError", !.at = p]
    ELSE [c EXCEPT !.state = track(c.state, p, step),
                   !.params_with_grad = Append(@, p),
                   !.state_steps = Append(@, step)]

\* mutant: a parameter without a gradient is not skipped but updated with a
\* zero gradient
collect_param_no_skip(c, g, p, step) ==
    IF g[p].kind = "sparse" THEN [c EXCEPT !.err = "RuntimeError", !.at = p]
    ELSE [c EXCEPT !.state = track(c.state, p, step),
                   !.params_with_grad = Append(@, p),
                   !.state_steps = Append(@, step)]

\* One iteration of the first loop (lines 87-109): c is the loop's state,
\* [state, params_with_grad, state_steps, err, at].
collect_param(c, g, p, step) ==
    IF g[p].kind = "none" THEN c
    ELSE IF g[p].kind = "sparse" THEN [c EXCEPT !.err = "RuntimeError", !.at = p]
    ELSE [c EXCEPT !.state = track(c.state, p, step),
                   !.params_with_grad = Append(@, p),
                   !.state_steps = Append(@, step)]

\* The first loop over group['params'], from position k on.
RECURSIVE collect(_, _, _, _, _)
collect(c, g, params, step, k) ==
    IF k > Len(params) \/ c.err # "none" THEN c
    ELSE collect(collect_param(c, g, params[k], step), g, params, step, k + 1)

\* mutant: grad.add_(param, alpha=weight_decay), in place
decayed_in_place(buf, param, weight_decay) ==
    LET sum == IF weight_decay # 0 THEN buf + MulR(weight_decay, param) ELSE buf
    IN [local |-> sum, buf |-> sum]

\* grad = grad.add(param, alpha=weight_decay): the local gradient the update
\* uses and the buffer p.grad as the statement leaves it
decayed(buf, param, weight_decay) ==
    [local |-> IF weight_decay # 0 THEN buf + MulR(weight_decay, param) ELSE buf,
     buf |-> buf]

\* One iteration of the second loop (lines 112-137) for parameter p.  The
\* moments are written in place before the scalar division of line 131, which
\* raises ZeroDivisionError on a zero bias_correction1.  The divisions of
\* lines 134 and 137 are tensor divisions, which never raise; with eps > 0 and
\* betas[1] < 1 their divisors are non-zero in every configuration of CtorArgs.
update_param(o, group, lr_t, beta1_t, p, step_t) ==
    LET wd == decayed(o.grad[p].v, o.data[p], group.weight_decay)
        g == wd.local
        exp_avg == MulR(o.state[p].exp_avg, beta1_t) + MulR(g, One - beta1_t)
        exp_avg_sq == MulR(o.state[p].exp_avg_sq, group.betas[2])
                         + MulR(MulR(g, g), One - group.betas[2])
        bias_correction1 == One - Pow(beta1_t, step_t)
        bias_correction2 == One - Pow(group.betas[2], step_t)
        o1 == [o EXCEPT !.grad[p].v = wd.buf,
                        !.state[p].exp_avg = exp_avg,
                        !.state[p].exp_avg_sq = exp_avg_sq]
        lr_t_adj == DivR(lr_t, bias_correction1)
        denom == DivR(Sqrt(exp_avg_sq), Sqrt(bias_correction2)) + group.eps
    IN IF bias_correction1 = 0 THEN Outcome(o1, "ZeroDivisionError", p)
       ELSE Outcome([o1 EXCEPT !.data[p] = @ - MulR(lr_t_adj, DivR(exp_avg, denom))],
                    "none", 0)

\* The second loop over params_with_grad, from position i on.
RECURSIVE update(_, _, _, _, _, _, _)
update(o, group, lr_t, beta1_t, params_with_grad, state_steps, i) ==
    IF i > Len(params_with_grad) THEN Outcome(o, "none", 0)
    ELSE LET r == update_param(o, group, lr_t, beta1_t, params_with_grad[i], state_steps[i])
         IN IF r.err # "none" THEN r
            ELSE update(r.o, group, lr_t, beta1_t, params_with_grad, state_steps, i + 1)

\* The body of `for group in self.param_groups` for group gi (lines 64-137).
step_group(o, gi) ==
    LET group == [o.param_groups[gi] EXCEPT !.step = @ + 1]
        step == group.step
        temperature == temperature_of(group, step)
        lr_t == lr_t_of(group, temperature)
        beta1_t == beta1_t_of(group, temperature)
        c == collect([state |-> o.state, params_with_grad |-> <<>>,
                      state_steps |-> <<>>, err |-> "none", at |-> 0],
                     o.grad, group.params, step, 1)
        o1 == [o EXCEPT !.param_groups[gi] = group, !.state = c.state]
    IN IF c.err # "none" THEN Outcome(o1, c.err, c.at)
       ELSE update(o1, group, lr_t, beta1_t, c.params_with_grad, c.state_steps, 1)

\* mutant: the exception is raised only after every group has been processed
RECURSIVE step_groups_deferred(_, _)
step_groups_deferred(o, gi) ==
    IF gi > Len(o.param_groups) THEN Outcome(o, "none", 0)
    ELSE LET r == step_group(o, gi)
             rest == step_groups_deferred(r.o, gi + 1)
         IN IF r.err # "none" THEN Outcome(rest.o, r.err, r.at) ELSE rest

\* The loop over the groups, from group gi on, stopped by the first exception.
RECURSIVE step_groups(_, _)
step_groups(o, gi) ==
    IF gi > Len(o.param_groups) THEN Outcome(o, "none", 0)
    ELSE LET r == step_group(o, gi)
         IN IF r.err # "none" THEN r ELSE step_groups(r.o, gi + 1)

\* The optimizer once the closure, if there is one, has run (lines 59-62).
after_closure(o, closure) ==
    IF closure = <<>> THEN o ELSE [o EXCEPT !.grad = closure[1]]

\* step(closure)
step(o, closure) == step_groups(after_closure(o, closure), 1)

\* The group a parameter belongs to.
GroupOf(p) == CHOOSE gi \in 1 .. Len(GroupParams) :
                 \E k \in 1 .. Len(GroupParams[gi]) : GroupParams[gi][k] = p

\* The last group a call entered: the one it raised in, or the last of all.
Reached(r) == IF r.err = "none" THEN Len(GroupParams) ELSE GroupOf(r.at)

Self == Optimizer(param_groups, state, data, grad)

\* ------------------------------------------------------- snapshot / restore
\* state_dict() of the base class: the groups (hyperparameters and step) and
\* the per-parameter state, copied out by value as serialisation does
state_dict(o) == [state |-> o.state, param_groups |-> o.param_groups]

\* mutant: the groups of the snapshot (and with them the step counters) are
\* not taken over
setstate_state_only(o, st) == [o EXCEPT !.state = st.state]

\* AdamT.__setstate__: Optimizer.__setstate__ replaces the optimizer's state
\* and groups by the given ones, then every group gets amsgrad = False
\* unless it has the key.
setstate(o, st) ==
    [o EXCEPT !.state = st.state,
              !.param_groups =
                  [gi \in 1 .. Len(st.param_groups) |->
                      IF st.param_groups[gi].amsgrad = "unset"
                      THEN [st.param_groups[gi] EXCEPT !.amsgrad = "False"]
                      ELSE st.param_groups[gi]]]

\* load_state_dict(sd): the saved groups, each over the optimizer's own
\* parameters, and the saved state go through __setstate__
load_state_dict(o, sd) ==
    setstate(o, [state |-> sd.state,
                 param_groups |->
                     [gi \in 1 .. Len(sd.param_groups) |->
                         [sd.param_groups[gi] EXCEPT !.params = o.param_groups[gi].params]]])

\* A second optimizer built by the same constructor call over a copy of the
\* parameters as they are now, with the snapshot of this one loaded into it.
Restored == load_state_dict(Optimizer(new_groups(ctor), NoState, data, grad),
                            state_dict(Self))

\* optimizer.step(closure), on the optimizer and, once there is one, on its
\* restored twin, which is given the same gradients
Step ==
    /\ pc = "ready"
    /\ calls < MaxCalls
    /\ \E closure \in Closures :
          \E r \in {step(Self, closure)} :
             /\ param_groups' = r.o.param_groups
             /\ state' = r.o.state
             /\ data' = r.o.data
             /\ grad' = r.o.grad
             /\ last' = [op |-> "step", err |-> r.err, at |-> r.at,
                         reached |-> Reached(r),
                         errors |-> last.errors + (IF r.err = "none" THEN 0 ELSE 1),
                         pre_groups |-> param_groups, pre_state |-> state,
                         pre_data |-> data, pre_grad |-> grad,
                         in_grad |-> after_closure(Self, closure).grad]
             /\ restored' = IF Len(restored) = 0 THEN restored
                            ELSE <<[run |-> step(restored[1].run.o, closure),
                                    since |-> restored[1].since + 1]>>
    /\ calls' = calls + 1
    /\ UNCHANGED <<pc, ctor, raised>>

\* torch.save(optimizer.state_dict()) after some call, and a new optimizer
\* that loads it
Checkpoint ==
    /\ pc = "ready"
    /\ 1 <= calls
    /\ calls < MaxCalls
    /\ Len(restored) = 0
    /\ restored' = <<[run |-> Outcome(Restored, last.err, last.at), since |-> 0]>>
    /\ UNCHANGED <<pc, ctor, raised, param_groups, state, data, grad, calls, last>>

Next == Construct \/ Step \/ Checkpoint

Spec == Init /\ [][Next]_vars

\* ----------------------------------------------------- reading a call back
\* The definitions below state the claims; they are not part of the model.
\* The position of parameter p in its group, and the order in which step()
\* visits the parameters.
IndexOf(p) == CHOOSE k \in 1 .. Len(GroupParams[GroupOf(p)]) : GroupParams[GroupOf(p)][k] = p
Before(p, q) ==
    \/ GroupOf(p) < GroupOf(q)
    \/ GroupOf(p) = GroupOf(q) /\ IndexOf(p) < IndexOf(q)

Stepped == last.op = "step"

\* The last call left parameter p as it found it: absent from the state
\* table if it was, with the same step and moments if it was tracked, and
\* with the same value.
Untouched(p) ==
    /\ (p \in DOMAIN state) = (p \in DOMAIN last.pre_state)
    /\ p \in DOMAIN state => state[p] = last.pre_state[p]
    /\ data[p] = last.pre_data[p]

\* The last call ran the second loop's body for p as far as the moments
\* (lines 113-124), and to its end (line 137).
MomentsWritten(p) ==
    /\ Stepped
    /\ last.in_grad[p].kind = "dense"
    /\ \/ last.err = "none"
       \/ GroupOf(p) < GroupOf(last.at)
       \/ last.err = "ZeroDivisionError" /\ (p = last.at \/ Before(p, last.at))
ValueWritten(p) == MomentsWritten(p) /\ ~(last.err = "ZeroDivisionError" /\ p = last.at)

\* The step and the moments of p before the last call (zeros when unseen).
PreMoments(p) ==
    IF p \in DOMAIN last.pre_state THEN last.pre_state[p]
    ELSE [step |-> 0, exp_avg |-> 0, exp_avg_sq |-> 0]

\* Every bound of section 3 that the configuration cfg breaks.
OutOfBound(cfg) ==
    {f \in {"lr", "eps", "betas[0]", "betas[1]", "weight_decay", "temperature_init",
            "eta_min", "T_max"} :
        \/ f = "lr" /\ cfg.lr < 0
        \/ f = "eps" /\ cfg.eps < 0
        \/ f = "betas[0]" /\ ~(0 <= cfg.betas[1] /\ cfg.betas[1] < One)
        \/ f = "betas[1]" /\ ~(0 <= cfg.betas[2] /\ cfg.betas[2] < One)
        \/ f = "weight_decay" /\ cfg.weight_decay < 0
        \/ f = "temperature_init" /\ cfg.temperature_init < 0
        \/ f = "eta_min" /\ ~(0 <= cfg.eta_min /\ cfg.eta_min <= cfg.temperature_init)
        \/ f = "T_max" /\ cfg.T_max < 1}

\* The configuration group gi is constructed with: its own keys over the
\* keyword arguments.
ConfigOf(gi) == add_param_group(ctor.params[gi], ctor.kw)
GroupIds == 1 .. Len(GroupParams)
AllValid == \A gi \in GroupIds : OutOfBound(ConfigOf(gi)) = {}

InScenario == ctor = [params |-> PlainGroups, kw |-> Scenario]
Tolerance == One \div 1000000
Abs(a) == IF a < 0 THEN -a ELSE a
Near(a, b) == Abs(a - b) <= Tolerance

\* ------------------------------------------------------------------ claims

\* C1: every group's step counter is 0 after construction; an update call
\* adds exactly 1 to the counter of every group it gets to (all of them when
\* it completes without error), whatever gradients the group's parameters
\* have; so as long as every call completed without error, every counter
\* equals the number of calls.
C1_StepCounter ==
    pc = "ready" =>
        \A gi \in GroupIds :
            /\ calls = 0 => param_groups[gi].step = 0
            /\ Stepped /\ gi <= last.reached =>
                   param_groups[gi].step = last.pre_groups[gi].step + 1
            /\ Stepped /\ last.err = "none" => last.reached = Len(GroupParams)
            /\ last.errors = 0 => param_groups[gi].step = calls

\* Two completed calls, the second without any gradient in group 2.
C1_Witness ==
    /\ calls = 2
    /\ last.errors = 0
    /\ last.in_grad[3].kind = "none"
    /\ param_groups[2].step = 2

\* C2: a call that meets a sparse gradient on a parameter raises the sparse
\* gradient error at the first such parameter, and no parameter with a sparse
\* gradient has its state entry or value changed by the call (unseen stays
\* absent, tracked keeps step, moments and value).
C2_SparseLeavesParam ==
    Stepped =>
        /\ last.err = "RuntimeError" => last.in_grad[last.at].kind = "sparse"
        /\ \A p \in ParamIds :
              last.in_grad[p].kind = "sparse" =>
                  /\ Untouched(p)
                  /\ last.err # "none"
                  /\ last.err = "RuntimeError" => ~Before(p, last.at)
                  /\ last.err = "ZeroDivisionError" => GroupOf(last.at) < GroupOf(p)

\* A tracked parameter, updated by the first call, fails the second.
C2_Witness ==
    /\ Stepped
    /\ last.err = "RuntimeError"
    /\ last.at \in DOMAIN state
    /\ state[last.at].exp_avg # 0
    /\ \E p \in ParamIds : p # last.at /\ last.in_grad[p].kind = "sparse"
                              /\ p \notin DOMAIN state

\* C3 (as claimed): construction fails, naming an offending field, exactly
\* when some hyperparameter of some group's configuration is out of bound.
C3_EveryGroupValidated ==
    pc # "new" =>
        /\ ~AllValid => pc = "failed"
                          /\ \E gi \in GroupIds : raised \in OutOfBound(ConfigOf(gi))
        /\ AllValid => pc = "ready"

\* C4 (as claimed): with a valid configuration in every group, a call whose
\* gradients are all dense (or missing) raises nothing, at any step count.
C4_DenseNeverRaises ==
    Stepped /\ AllValid /\ (\A p \in ParamIds : last.in_grad[p].kind # "sparse")
        => last.err = "none"

\* C5: a parameter without a gradient is skipped: its state entry and its
\* value are as before the call (unseen stays absent), and the step counter of
\* its group has advanced by 1 whenever the call got to that group.
C5_NoGradSkipped ==
    Stepped =>
        \A p \in ParamIds :
            last.in_grad[p].kind = "none" =>
                /\ Untouched(p)
                /\ ~MomentsWritten(p)
                /\ GroupOf(p) <= last.reached =>
                       param_groups[GroupOf(p)].step = last.pre_groups[GroupOf(p)].step + 1
                /\ last.err = "none" => GroupOf(p) <= last.reached

\* A tracked parameter and an unseen one are skipped by a completed call that
\* updates a third.
C5_Witness ==
    /\ Stepped
    /\ last.err = "none"
    /\ \E p, q, r \in ParamIds :
          /\ last.in_grad[p].kind = "none" /\ p \in DOMAIN state /\ state[p].step = 1
          /\ param_groups[GroupOf(p)].step = 2
          /\ last.in_grad[q].kind = "none" /\ q \notin DOMAIN state
          /\ last.in_grad[r].kind = "dense" /\ data[r] # last.pre_data[r]

\* The hyperparameters and the step of a group, without the amsgrad flag.
Core(group) == [group EXCEPT !.amsgrad = "unset"]

C7_ScenarioAsStated ==
    InScenario /\ calls = 1 /\ Stepped /\ last.err = "none" =>
        \A p \in ParamIds :
            last.in_grad[p] = DenseGrad(One) =>
                /\ Near(data[p], 90000000)
                /\ Near(temperature_of(param_groups[GroupOf(p)], 1), One)

\* C7 (amended): in the scenario the first call has temperature about
\* 0.9779754, adjusted rate lr_adj about 1.0 and firstMoment / denom about
\* 0.0977975, and moves the parameter from 1.0 to about 0.9022025, all within
\* 1e-6.
C7_ScenarioAsComputed ==
    InScenario /\ calls = 1 /\ Stepped /\ last.err = "none" =>
        \A p \in ParamIds :
            last.in_grad[p] = DenseGrad(One) =>
                LET group == param_groups[GroupOf(p)]
                    temperature == temperature_of(group, 1)
                    beta1_t == beta1_t_of(group, temperature)
                    lr_adj == DivR(lr_t_of(group, temperature), One - Pow(beta1_t, 1))
                    denom == DivR(Sqrt(state[p].exp_avg_sq),
                                  Sqrt(One - Pow(group.betas[2], 1))) + group.eps
                IN /\ Near(temperature, 97797543)
                   /\ Near(lr_adj, One)
                   /\ Near(DivR(state[p].exp_avg, denom), 9779754)
                   /\ Near(data[p], 90220246)
                   /\ Near(last.pre_data[p] - data[p], MulR(lr_adj, DivR(state[p].exp_avg, denom)))

\* The scenario's first call has updated a parameter.
C7_Witness ==
    /\ InScenario /\ calls = 1 /\ Stepped /\ last.err = "none"
    /\ \E p \in ParamIds : last.in_grad[p] = DenseGrad(One) /\ ValueWritten(p)
                              /\ last.pre_data[p] = One

\* C8 (as claimed): a parameter's step changes (or its entry appears) only in
\* a call that also updates its moments and its value.
C8_StepMirrorsLastUpdate ==
    Stepped =>
        \A p \in DOMAIN state :
            (p \notin DOMAIN last.pre_state \/ state[p].step # last.pre_state[p].step)
                => /\ ValueWritten(p)
                   /\ state[p].exp_avg_sq # PreMoments(p).exp_avg_sq
                   /\ data[p] # last.pre_data[p]

\* C9: a call that fails on a sparse gradient at a parameter of group g stops
\* there: the parameters after it in g, and the step counter and parameters
\* of every later group, are as before the call; what the call did before is
\* kept: the step counters of g and of the earlier groups have advanced, the
\* parameters of earlier groups that had a gradient are updated, and the
\* earlier parameters of g that had a gradient carry the new step.
C9_FailureStopsTheCall ==
    Stepped /\ last.err = "RuntimeError" =>
        LET g == GroupOf(last.at)
        IN /\ last.reached = g
           /\ \A p \in ParamIds : Before(last.at, p) => Untouched(p)
           /\ \A gi \in GroupIds : gi > g => param_groups[gi] = last.pre_groups[gi]
           /\ \A gi \in GroupIds :
                 gi <= g => param_groups[gi].step = last.pre_groups[gi].step + 1
           /\ \A p \in ParamIds :
                 last.in_grad[p].kind = "dense" /\ Before(p, last.at) =>
                     /\ p \in DOMAIN state
                     /\ state[p].step = param_groups[GroupOf(p)].step
                     /\ GroupOf(p) < g =>
                           /\ data[p] # last.pre_data[p]
                           /\ state[p].exp_avg_sq # PreMoments(p).exp_avg_sq

\* A call fails in group 2 after updating group 1, and another fails at the
\* first parameter of group 1.
C9_Witness ==
    /\ Stepped
    /\ last.err = "RuntimeError"
    /\ GroupOf(last.at) = 2
    /\ \E p \in ParamIds : GroupOf(p) = 1 /\ ValueWritten(p) /\ data[p] # last.pre_data[p]

====
